---- MODULE Spec2Model ----
(***************************************************************************)
(* Reptile meta-learning engine (automated_machine_learning_torch_reptile) *)
(* as a state machine: the script constructs a Reptile object, calls       *)
(* train(task) and then eval(...).  Parameter tensors are float32; a       *)
(* float is modelled as an integer count of the least spacing with a       *)
(* MantissaBits-bit significand, every arithmetic result being rounded to  *)
(* nearest, ties to even.  The network's forward pass, the loss value and  *)
(* the gradient are inputs of the steps: predictions are kept as symbolic  *)
(* applications <<weights, x>>, losses and gradients are drawn from small  *)
(* sets.                                                                   *)
(***************************************************************************)
EXTENDS Integers, Sequences, FiniteSets

\* ---------------------------------------------------------------- bounds
SampleCount == 3
MaxOuterIterations == 2
MaxInnerBatchSize == 2
MaxGradientSteps == 2

\* ------------------------------------------------------ program constants
MantissaBits == 24
SampleRadius == 4

ParamNames == {"input.weight", "output.bias"}
Zeros == [p \in ParamNames |-> 0]
Big == 2 ^ MantissaBits

Tasks == {"logistic", "sine"}
Thetas == {<<1, 1, -1>>}
InnerStepSizes == {1}
EvalStepSizes == {1, 2}
OuterStepSizes == {<<0, 1>>, <<1, 1>>, <<1, 2>>}
MetaBatchSizes == (SampleCount - 1) .. SampleCount
EvalBatchSizes == {2}
LossVals == {1}
EvalLossVals == {0, 1}
InitialWeights ==
  { [p \in ParamNames |-> IF p = "input.weight" THEN Big ELSE 3],
    [p \in ParamNames |-> IF p = "input.weight" THEN 0 ELSE -5] }
Gradients ==
  { [p \in ParamNames |-> IF p = "input.weight" THEN 3 ELSE -1],
    [p \in ParamNames |-> IF p = "input.weight" THEN Big ELSE 2] }

\* ------------------------------------------------------------ float32
Abs(x) == IF x < 0 THEN -x ELSE x

RECURSIVE Ulp(_, _)
Ulp(a, u) == IF a \div u < 2 ^ MantissaBits THEN u ELSE Ulp(a, 2 * u)

\* the float nearest to the rational n/d (d > 0), ties to the even significand
Fl(n, d) ==
  LET a == Abs(n)
      u == Ulp(a \div d, 1)
      m == d * u
      q == a \div m
      r == a % m
      k == IF 2 * r < m THEN q
           ELSE IF 2 * r > m THEN q + 1
           ELSE IF q % 2 = 0 THEN q ELSE q + 1
  IN  (IF n < 0 THEN -1 ELSE 1) * k * u

FAdd(a, b) == Fl(a + b, 1)
FSub(a, b) == Fl(a - b, 1)
FMul(a, b) == Fl(a * b, 1)
\* a Python scalar r = <<num, den>> times a float32 element
FScale(r, x) == Fl(r[1] * x, r[2])

\* ------------------------------------------------- Python scalars (alpha)
RatEq(a, b) == a[1] * b[2] = b[1] * a[2]
RatLess(a, b) == a[1] * b[2] < b[1] * a[2]
RatSub(a, b) == <<a[1] * b[2] - b[1] * a[2], a[2] * b[2]>>
RatMul(a, b) == <<a[1] * b[1], a[2] * b[2]>>

FloorDiv(i, n) == <<i \div n, 1>>
TrueDiv(i, n) == <<i, n>>

Alpha(outer_step_size, outer_iteration, outer_iterations) ==
  RatMul(outer_step_size,
         RatSub(<<1, 1>>, TrueDiv(outer_iteration, outer_iterations)))

\* --------------------------------------------------------- task sampler
meta_sample(radius, count) ==
  [i \in 0 .. (count - 1) |-> <<-radius * (count - 1) + 2 * radius * i, count - 1>>]

sample_space == meta_sample(SampleRadius, SampleCount)

Positions == DOMAIN sample_space

logistic(x, theta) == [i \in DOMAIN x |-> <<"logistic", x[i], theta>>]

NeverRaises(task) == FALSE
SampleRaises(task) == task # "logistic"

Perms ==
  { s \in [1 .. SampleCount -> Positions] :
      \A i, j \in 1 .. SampleCount : i # j => s[i] # s[j] }

Min(a, b) == IF a < b THEN a ELSE b

Ceil(a, b) == (a + b - 1) \div b

\* perm[batch : batch + size] on a 0-based array kept as a 1-based sequence
Slice(perm, batch, size) == SubSeq(perm, batch + 1, Min(batch + size, Len(perm)))

RangeNoTail(n, step) == { b \in 0 .. (n - step) : b % step = 0 }
\* range(0, n, step)
Range(n, step) == { b \in 0 .. (n - 1) : b % step = 0 }

\* ------------------------------------------------- function approximator
Predict(theta, x) == [i \in DOMAIN x |-> <<theta, x[i]>>]

ZeroParams(net) == [theta |-> Zeros, grad |-> Zeros]
ZeroGrad(net) == [net EXCEPT !.grad = Zeros]

StateDict(net) == [ref |-> "alias", val |-> net.theta]
Deref(sd, net) == IF sd.ref = "alias" THEN net.theta ELSE sd.val

shallowcopy(sd, net) == sd
deepcopy(sd, net) == [ref |-> "copy", val |-> Deref(sd, net)]

LoadNothing(net, weights) == net
LoadStateDict(net, weights) ==
  [net EXCEPT !.theta = [p \in DOMAIN net.theta |-> weights[p]]]

\* theta.data -= step * grad, for every parameter
SgdStep(theta, step, grad) ==
  [p \in DOMAIN theta |-> FSub(theta[p], FMul(step, grad[p]))]

InterpolateFromCandidate(current, candidate, alpha) ==
  [p \in DOMAIN candidate |->
     FAdd(candidate[p], FScale(alpha, FSub(candidate[p], current[p])))]
Interpolate(current, candidate, alpha) ==
  [p \in DOMAIN candidate |->
     FAdd(current[p], FScale(alpha, FSub(candidate[p], current[p])))]

NoBaseEstimate(theta) == <<>>
\* estimate = [self.predict(sample_space[:, None])]
BaseEstimate(theta) == <<Predict(theta, sample_space)>>

RangeInclusive(i, n) == i <= n
\* the next value of range(n) exists
InRange(i, n) == i < n

\* ------------------------------------------------------------- the state
VARIABLES
  params,           \* the Reptile object's configuration (__init__)
  task,             \* the task kind handed to train and to sample
  model,            \* self.model: [theta: parameters, grad: their .grad]
  current_loss,     \* self.current_loss
  current_batch,    \* self.current_batch
  pc,               \* position of the script
  error,            \* the exception that ended the script, if any
  outer_iteration, inner_iteration, batch,   \* loop variables of train
  current_weights,  \* train's snapshot of the state dict
  samples,          \* train's sampled task targets
  idx,              \* train's mini-batch: the positions drawn and how many
  alpha,            \* train's cooling coefficient
  log,              \* scalars handed to self.log
  ev,               \* locals of the running (or last) eval call
  ret,              \* what the last eval call returned, NoReturn during a call
  hist              \* history: values earlier steps saw, for stating properties

vars == <<params, task, model, current_loss, current_batch, pc, error,
          outer_iteration, inner_iteration, batch, current_weights, samples,
          idx, alpha, log, ev, ret, hist>>

trainLocals == <<outer_iteration, inner_iteration, batch, current_weights,
                 samples, idx, alpha>>
config == <<params, task>>

NoEval ==
  [x |-> {}, y |-> <<>>, estimate |-> <<>>,
   meta_weights |-> [ref |-> "copy", val |-> Zeros],
   meta_loss |-> 0, step |-> 0, gradient_steps |-> 0, inner_step_size |-> 0,
   meta_batch_size |-> 1]

NoReturn == [estimate |-> <<>>, evaluation_loss |-> <<0, 1>>]

Init ==
  /\ params \in [inner_step_size : InnerStepSizes,
                 inner_batch_size : 1 .. MaxInnerBatchSize,
                 outer_step_size : OuterStepSizes,
                 outer_iterations : 0 .. MaxOuterIterations,
                 meta_batch_size : MetaBatchSizes]
  /\ task \in Tasks
  /\ \E w \in InitialWeights :
       /\ model = [theta |-> w, grad |-> Zeros]
       /\ hist = [initial |-> w, last_completed |-> w, iter_start |-> w,
                  candidate |-> w, iter_steps |-> 0, sampled |-> 0,
                  alphas |-> <<>>, pre_eval |-> w, eval_prev |-> w,
                  eval_grads |-> <<>>, eval_end |-> w, caller |-> "constructed"]
  /\ current_loss = 0
  /\ current_batch = 0
  /\ pc = "constructed"
  /\ error = [kind |-> "none", at |-> "none"]
  /\ outer_iteration = 0
  /\ inner_iteration = 0
  /\ batch = 0
  /\ current_weights = [ref |-> "copy", val |-> Zeros]
  /\ samples = <<>>
  /\ idx = [positions |-> {}, size |-> 0]
  /\ alpha = <<0, 1>>
  /\ log = <<>>
  /\ ev = NoEval
  /\ ret = NoReturn

\* ---------------------------------------------------------------- train
\* train, line 102: self.reset()
TrainReset ==
  /\ pc = "constructed"
  /\ model' = ZeroGrad(model)
  /\ current_loss' = 0
  /\ current_batch' = 0
  /\ outer_iteration' = 0
  /\ pc' = "outer_loop"
  /\ UNCHANGED <<config, error, inner_iteration, batch, current_weights,
                 samples, idx, alpha, log, ev, ret, hist>>

\* lines 105-108: the head of the outer loop and the snapshot
TrainOuter ==
  /\ pc = "outer_loop"
  /\ IF InRange(outer_iteration, params.outer_iterations)
       THEN /\ current_weights' = deepcopy(StateDict(model), model)
            /\ hist' = [hist EXCEPT !.iter_start = model.theta,
                                    !.candidate = model.theta,
                                    !.iter_steps = 0]
            /\ pc' = "sample"
       ELSE /\ pc' = "trained"
            /\ UNCHANGED <<current_weights, hist>>
  /\ UNCHANGED <<config, model, current_loss, current_batch, error,
                 outer_iteration, inner_iteration, batch, samples, idx, alpha,
                 log, ev, ret>>

\* line 111: sample(task), and the heads of the two inner loops
TrainSample ==
  /\ pc = "sample"
  /\ hist' = [hist EXCEPT !.sampled = @ + 1]
  /\ IF SampleRaises(task)
       THEN /\ pc' = "failed"
            /\ error' = [kind |-> "NotImplementedError", at |-> "sample"]
            /\ UNCHANGED <<samples, inner_iteration, batch>>
       ELSE /\ \E theta \in Thetas : samples' = logistic(sample_space, theta)
            /\ inner_iteration' = 0
            /\ batch' = 0
            /\ pc' = IF InRange(0, params.inner_batch_size)
                        /\ 0 \in Range(SampleCount, params.meta_batch_size)
                       THEN "inner" ELSE "meta"
            /\ UNCHANGED error
  /\ UNCHANGED <<config, model, current_loss, current_batch, outer_iteration,
                 current_weights, idx, alpha, log, ev, ret>>

\* lines 120-139: one mini-batch, and the advance of the two inner loops
TrainBatch ==
  /\ pc = "inner"
  /\ \E perm \in Perms, g \in Gradients, batch_loss \in LossVals :
       LET window == Slice(perm, batch, params.meta_batch_size)
       IN  /\ idx' = [positions |-> { window[k] : k \in DOMAIN window },
                      size |-> Len(window)]
           /\ model' = [theta |-> SgdStep(model.theta, params.inner_step_size, g),
                        grad |-> g]
           /\ current_loss' = current_loss + batch_loss
  /\ current_batch' = current_batch + 1
  /\ hist' = [hist EXCEPT !.iter_steps = @ + 1]
  /\ IF batch + params.meta_batch_size \in Range(SampleCount, params.meta_batch_size)
       THEN /\ batch' = batch + params.meta_batch_size
            /\ UNCHANGED <<inner_iteration, pc>>
       ELSE /\ batch' = 0
            /\ inner_iteration' = inner_iteration + 1
            /\ pc' = IF InRange(inner_iteration + 1, params.inner_batch_size)
                       THEN "inner" ELSE "meta"
  /\ UNCHANGED <<config, error, outer_iteration, current_weights, samples,
                 alpha, log, ev, ret>>

\* lines 142-151: cooling coefficient, interpolation, load_state_dict
TrainMetaUpdate ==
  /\ pc = "meta"
  /\ LET a == Alpha(params.outer_step_size, outer_iteration, params.outer_iterations)
         candidate_weights == StateDict(model)
         state_dict == Interpolate(Deref(current_weights, model),
                                   Deref(candidate_weights, model), a)
     IN  /\ alpha' = a
         /\ model' = LoadStateDict(model, state_dict)
         /\ hist' = [hist EXCEPT !.candidate = model.theta,
                                 !.alphas = Append(@, a)]
  /\ pc' = "log"
  /\ UNCHANGED <<config, current_loss, current_batch, error, outer_iteration,
                 inner_iteration, batch, current_weights, samples, idx, log,
                 ev, ret>>

\* lines 154-156: the metric of the iteration, and the loop's increment
TrainLog ==
  /\ pc = "log"
  /\ log' = Append(log, [step |-> outer_iteration,
                         loss |-> <<current_loss, current_batch>>])
  /\ outer_iteration' = outer_iteration + 1
  /\ hist' = [hist EXCEPT !.last_completed = model.theta,
                          !.iter_start = model.theta,
                          !.candidate = model.theta]
  /\ pc' = "outer_loop"
  /\ UNCHANGED <<config, model, current_loss, current_batch, error,
                 inner_iteration, batch, current_weights, samples, idx, alpha,
                 ev, ret>>

\* an exception raised inside the loop body (train catches nothing)
TrainInterrupt ==
  /\ pc \in {"sample", "inner", "meta", "log"}
  /\ error' = [kind |-> "Interrupted", at |-> pc]
  /\ pc' = "failed"
  /\ UNCHANGED <<config, model, current_loss, current_batch, trainLocals, log,
                 ev, ret, hist>>

\* ----------------------------------------------------------------- eval
\* the script's sample(task) (line 330) and eval, lines 193-203
EvalCall ==
  /\ pc \in {"constructed", "trained"}
  /\ IF SampleRaises(task)
       THEN /\ pc' = "failed"
            /\ error' = [kind |-> "NotImplementedError", at |-> "script"]
            /\ UNCHANGED <<model, ev, ret, hist>>
       ELSE /\ \E theta \in Thetas, x \in SUBSET Positions,
                  meta_batch_size \in EvalBatchSizes,
                  gradient_steps \in 0 .. MaxGradientSteps,
                  inner_step_size \in EvalStepSizes,
                  meta_loss \in EvalLossVals :
                 /\ Cardinality(x) = params.meta_batch_size
                 /\ ev' = [x |-> x,
                           y |-> [i \in x |-> logistic(sample_space, theta)[i]],
                           estimate |-> BaseEstimate(model.theta),
                           meta_weights |-> deepcopy(StateDict(model), model),
                           meta_loss |-> meta_loss,
                           step |-> 0,
                           gradient_steps |-> gradient_steps,
                           inner_step_size |-> inner_step_size,
                           meta_batch_size |-> meta_batch_size]
            /\ model' = ZeroGrad(model)
            /\ ret' = NoReturn
            /\ hist' = [hist EXCEPT !.caller = pc,
                                    !.pre_eval = model.theta,
                                    !.eval_prev = model.theta,
                                    !.eval_grads = <<>>,
                                    !.eval_end = model.theta]
            /\ pc' = "eval"
            /\ UNCHANGED error
  /\ UNCHANGED <<config, current_loss, current_batch, trainLocals, log>>

\* lines 206-222: one adaptation step of eval
EvalStep ==
  /\ pc = "eval"
  /\ InRange(ev.step, ev.gradient_steps)
  /\ \E g \in Gradients :
       LET theta == SgdStep(model.theta, params.inner_step_size, g)
       IN  /\ model' = [theta |-> theta, grad |-> g]
           /\ ev' = [ev EXCEPT !.step = @ + 1,
                               !.estimate = Append(@, Predict(theta, sample_space))]
           /\ hist' = [hist EXCEPT !.eval_prev = model.theta,
                                   !.eval_grads = Append(@, g),
                                   !.eval_end = theta]
  /\ UNCHANGED <<config, current_loss, current_batch, pc, error, trainLocals,
                 log, ret>>

\* lines 225-232: the final loss, the restore and the return
EvalReturn ==
  /\ pc = "eval"
  /\ ~ InRange(ev.step, ev.gradient_steps)
  /\ \E estimate_loss \in EvalLossVals :
       ret' = [estimate |-> ev.estimate,
               evaluation_loss |-> <<Abs(ev.meta_loss - estimate_loss),
                                     ev.meta_batch_size>>]
  /\ model' = LoadStateDict(ZeroGrad(model), Deref(ev.meta_weights, model))
  /\ pc' = hist.caller
  /\ UNCHANGED <<config, current_loss, current_batch, error, trainLocals, log,
                 ev, hist>>

TrainNext ==
  \/ TrainReset
  \/ TrainOuter
  \/ TrainSample
  \/ TrainBatch
  \/ TrainMetaUpdate
  \/ TrainLog
  \/ TrainInterrupt

EvalNext ==
  \/ EvalCall
  \/ EvalStep
  \/ EvalReturn

\* a training run of a freshly constructed engine
TrainSpec == Init /\ [][TrainNext]_vars

\* evaluation calls on a constructed engine
EvalSpec == Init /\ [][EvalNext]_vars

\* ------------------------------------------------------------ properties
One == <<1, 1>>

InIteration == pc \in {"sample", "inner", "meta"}

InterruptedBeforeInterpolation ==
  pc = "failed" /\ error.at \in {"sample", "inner", "meta"}

\* current + alpha * (candidate - current) in float32, parameter by parameter
Rule(current, candidate, a) ==
  [p \in ParamNames |->
     FAdd(current[p], FScale(a, FSub(candidate[p], current[p])))]

\* candidate - current needs no rounding, for every parameter
ExactDifference(current, candidate) ==
  \A p \in ParamNames : FSub(candidate[p], current[p]) = candidate[p] - current[p]

\* the parameters j eval steps after pre_eval, from the recorded gradients
RECURSIVE AfterSteps(_)
AfterSteps(j) ==
  IF j = 0 THEN hist.pre_eval
  ELSE SgdStep(AfterSteps(j - 1), params.inner_step_size, hist.eval_grads[j])

StepsPerIteration ==
  params.inner_batch_size * Ceil(SampleCount, params.meta_batch_size)

Returned == pc = hist.caller /\ ret # NoReturn

\* C1: when eval has returned, the model's parameters are elementwise the
\* parameters it had immediately before the call, whatever points, step size
\* and number of gradient steps the call used.
C1_EvalRestoresParameters ==
  Returned => model.theta = hist.pre_eval

C1_Witness ==
  /\ Returned
  /\ ev.gradient_steps > 0
  /\ ev.step = ev.gradient_steps
  /\ hist.eval_end # hist.pre_eval

C3_SnapshotIndependent ==
  InIteration => Deref(current_weights, model) = hist.iter_start

C3_Witness ==
  /\ pc = "meta"
  /\ hist.iter_steps > 1
  /\ model.theta # hist.iter_start
  /\ Deref(current_weights, model) = hist.iter_start

\* C4 (as claimed): an outer iteration interrupted before its interpolation
\* step leaves the model's parameters at the value they had at the end of the
\* last fully completed outer iteration.
C4_InterruptLeavesLastCompleted ==
  InterruptedBeforeInterpolation => model.theta = hist.last_completed

\* C4 (amended): an outer iteration interrupted before its first inner-loop
\* gradient step leaves the model's parameters at the value of the last fully
\* completed outer iteration; interrupted later, that value is held only by
\* the snapshot current_weights, the model keeping the adapted parameters.
C4_InterruptBeforeFirstStep ==
  InterruptedBeforeInterpolation =>
    /\ Deref(current_weights, model) = hist.last_completed
    /\ (hist.iter_steps = 0 => model.theta = hist.last_completed)

C4_Witness ==
  /\ InterruptedBeforeInterpolation
  /\ outer_iteration >= 1
  /\ hist.iter_steps = 0
  /\ hist.last_completed # hist.initial
  /\ model.theta = hist.last_completed

C6_TraceShape ==
  Returned =>
    /\ Len(ret.estimate) = ev.gradient_steps + 1
    /\ ret.estimate[1] = Predict(hist.pre_eval, sample_space)
    /\ \A j \in 1 .. ev.gradient_steps :
         ret.estimate[j + 1] = Predict(AfterSteps(j), sample_space)

C6_Witness ==
  /\ Returned
  /\ ev.gradient_steps >= 2
  /\ Len(ret.estimate) = ev.gradient_steps + 1
  /\ ret.estimate[1] # ret.estimate[2]
  /\ ret.estimate[2] # ret.estimate[3]

\* C7: with outer_iterations = 0, train changes no parameter, takes no
\* gradient step, samples no task and emits no metric.
C7_ZeroIterations ==
  (params.outer_iterations = 0 /\ pc # "constructed") =>
    /\ pc \in {"outer_loop", "trained"}
    /\ model.theta = hist.initial
    /\ current_batch = 0
    /\ hist.iter_steps = 0
    /\ hist.sampled = 0
    /\ log = <<>>

C7_Witness ==
  /\ params.outer_iterations = 0
  /\ pc = "trained"
  /\ model.theta = hist.initial

\* C8: for a task kind other than logistic, sample fails, and train fails at
\* the sample call of its first outer iteration, before any gradient step,
\* parameter change or metric.
C8_UnsupportedTask ==
  task # "logistic" =>
    /\ (hist.sampled > 0 =>
          /\ pc = "failed"
          /\ error = [kind |-> "NotImplementedError", at |-> "sample"]
          /\ hist.sampled = 1)
    /\ (params.outer_iterations >= 1 => pc # "trained")
    /\ pc \notin {"inner", "meta", "log"}
    /\ outer_iteration = 0
    /\ current_batch = 0
    /\ hist.iter_steps = 0
    /\ model.theta = hist.initial
    /\ log = <<>>

C8_Witness ==
  /\ task # "logistic"
  /\ params.outer_iterations >= 1
  /\ pc = "failed"
  /\ error.kind = "NotImplementedError"

\* C9 (as claimed): every adaptation step of eval updates each parameter by
\* parameter -= inner_step_size * gradient with the inner_step_size passed to
\* that eval call.
C9_EvalStepUsesArgument ==
  (pc = "eval" /\ ev.step > 0) =>
    model.theta = SgdStep(hist.eval_prev, ev.inner_step_size, model.grad)

\* C10: a completed outer iteration has taken inner_batch_size *
\* ceil(sample_count / meta_batch_size) gradient steps, each on distinct
\* sample-space positions, at least one and at most meta_batch_size of them,
\* and after i completed iterations the batch counter is i times that number.
C10_StepCount ==
  /\ (pc \in {"meta", "log"} => hist.iter_steps = StepsPerIteration)
  /\ (pc = "inner" => hist.iter_steps < StepsPerIteration)
  /\ (pc \in {"outer_loop", "trained"} =>
        current_batch = outer_iteration * StepsPerIteration)
  /\ ((pc \in {"inner", "meta", "log"} /\ hist.iter_steps > 0) =>
        /\ idx.positions \subseteq Positions
        /\ Cardinality(idx.positions) = idx.size
        /\ idx.size >= 1
        /\ idx.size <= params.meta_batch_size)

C10_Witness ==
  /\ pc = "outer_loop"
  /\ outer_iteration = 2
  /\ current_batch = 2 * StepsPerIteration
  /\ idx.size < params.meta_batch_size

====
